---------------------------- MODULE Spec2Model ----------------------------
(***************************************************************************)
(* Model of the report engine of Joystick.c: GetNextReport with its echo   *)
(* buffer, the sequence runner do_steps, the report builder take_action    *)
(* and the top-level state machine.  One call of GetNextReport is one step *)
(* of the model.                                                           *)
(***************************************************************************)
EXTENDS Integers, Sequences, FiniteSets

VARIABLES
    state,                  \* State_t state
    echoes,                 \* int echoes
    last_report,            \* USB_JoystickReport_Input_t last_report
    duration_count,         \* int duration_count
    bufindex,               \* int bufindex
    num_boxes,              \* uint8_t num_boxes (seeded from number_of_boxes)
    egg_count,              \* uint8_t egg_count (seeded from initial_egg_checks)
    egg_set,                \* uint8_t egg_set
    breeding_duration,      \* int breeding_duration
    new_round,              \* uint8_t new_round
    \* configuration (settings.h, instructions.h), fixed during a run
    number_of_boxes,
    initial_egg_checks,
    save,                   \* save policy selector
    subsequent_egg_checks,
    flame_body,
    nat_dex_number,
    wake_up_hang,           \* the step table run by BREATHE
    \* observation of the calls (not program state)
    report,                 \* *ReportData as the last call returned it
    calls,                  \* the last MaxWindow calls: fresh?, report, state before
    ticks,                  \* fresh ticks that moved the engine since the state was entered
    egg_log,                \* (egg_set, egg_count) around consecutive counting completions
    decrements,             \* number of decrements of num_boxes so far
    closes                  \* close-box completions since the last decrement

vars == <<state, echoes, last_report, duration_count, bufindex, num_boxes,
          egg_count, egg_set, breeding_duration, new_round, save,
          subsequent_egg_checks, flame_body, nat_dex_number, wake_up_hang,
          report, calls, ticks, egg_log, number_of_boxes, decrements, closes,
          initial_egg_checks>>

config == <<number_of_boxes, initial_egg_checks, save, subsequent_egg_checks, flame_body, nat_dex_number,
            wake_up_hang>>

-----------------------------------------------------------------------------
(* Bounds of the model *)

MaxBoxes == 2
MaxEggChecks == 1
MaxLen == 3
MaxDur == 2

(* Program constants *)

ECHOES == 2
STICK_MIN == 0
STICK_CENTER == 128
STICK_MAX == 255
HAT_CENTER == 8
UINT8 == 256
SlotsPerBox == 6

MaxWindow == 4
LogWindow == 7

-----------------------------------------------------------------------------
(* Reports and the report builder *)

ZeroReport ==
    [Button |-> {}, HAT |-> 0, LX |-> 0, LY |-> 0, RX |-> 0, RY |-> 0]

NeutralReport ==
    [Button |-> {}, HAT |-> HAT_CENTER, LX |-> STICK_CENTER, LY |-> STICK_CENTER,
     RX |-> STICK_CENTER, RY |-> STICK_CENTER]

reset_report(ReportData) == NeutralReport

take_action(action, ReportData) ==
    CASE action = "press_a"    -> [ReportData EXCEPT !.Button = @ \cup {"SWITCH_A"}]
      [] action = "press_b"    -> [ReportData EXCEPT !.Button = @ \cup {"SWITCH_B"}]
      [] action = "press_x"    -> [ReportData EXCEPT !.Button = @ \cup {"SWITCH_X"}]
      [] action = "press_y"    -> [ReportData EXCEPT !.Button = @ \cup {"SWITCH_Y"}]
      [] action = "press_r"    -> [ReportData EXCEPT !.Button = @ \cup {"SWITCH_R"}]
      [] action = "press_l"    -> [ReportData EXCEPT !.Button = @ \cup {"SWITCH_L"}]
      [] action = "press_plus" -> [ReportData EXCEPT !.Button = @ \cup {"SWITCH_PLUS"}]
      [] action = "press_home" -> [ReportData EXCEPT !.Button = @ \cup {"SWITCH_HOME"}]
      [] action = "hang"       -> reset_report(ReportData)
      [] action = "L_left"     -> [ReportData EXCEPT !.LX = STICK_MIN]
      [] action = "L_right"    -> [ReportData EXCEPT !.LX = STICK_MAX]
      [] action = "L_up"       -> [ReportData EXCEPT !.LY = STICK_MIN]
      [] action = "L_down"     -> [ReportData EXCEPT !.LY = STICK_MAX]
      [] action = "L_up_right" -> [ReportData EXCEPT !.LY = STICK_MIN, !.LX = STICK_MAX]
      [] action = "L_up_right_slight" -> [ReportData EXCEPT !.LY = 60, !.LX = 200]
      [] action = "L_left_slight"  -> [ReportData EXCEPT !.LX = 100]
      [] action = "L_right_slight" -> [ReportData EXCEPT !.LX = 160]
      [] action = "L_up_slight"    -> [ReportData EXCEPT !.LY = 100]
      [] action = "L_down_slight"  -> [ReportData EXCEPT !.LY = 160]
      [] OTHER -> reset_report(ReportData)

-----------------------------------------------------------------------------
(* Step tables (instructions.h) and the species table (egg_cycles.h)       *)

Step(a, d) == [action |-> a, duration |-> d]

StepActions == {"press_a", "L_left", "hang"}

Sequences ==
    UNION {[1..n -> {Step(a, d) : a \in StepActions, d \in 0..MaxDur}] : n \in 1..MaxLen}

fly_to_breading_steps == <<Step("press_x", 0), Step("hang", 1), Step("press_a", 1)>>
go_in_out_nursery == <<Step("L_up", 1), Step("L_down", 0)>>
go_to_circle1 == <<Step("L_left", 1)>>
approach == <<Step("L_up_right", 0), Step("hang", 0)>>
speak == <<Step("press_a", 0), Step("press_b", 1)>>
go_to_circle2 == <<Step("L_down_slight", 0)>>
go_to_circle3 == <<Step("L_right", 1)>>
open_box == <<Step("press_x", 0), Step("press_r", 0)>>
select_col == <<Step("press_y", 0)>>
grab_eggs_pre(n) == <<Step("L_right_slight", n % 2), Step("press_a", 0)>>
grab_eggs_post(n) == <<Step("press_a", 0), Step("L_up_slight", n % 2)>>
close_box == <<Step("press_b", 0), Step("press_b", 0)>>
save_game == <<Step("press_x", 0), Step("press_r", 0), Step("press_a", 1)>>
sleep == <<Step("hang", 1), Step("press_home", 0)>>

egg_cycles == <<1280, 6400>>

SavePolicies == {0, 1, 2}

-----------------------------------------------------------------------------
(* The sequence runner, do_steps *)

StepElapsedInclusive(dc, duration) == dc >= duration

StepElapsed(dc, duration) == dc > duration

SequenceExhaustedLate(bi, steps_size) == bi > steps_size

SequenceExhausted(bi, steps_size) == bi > steps_size - 1

EggCountAfterCompletion(ec) == (ec - 1) % UINT8

EggSetWrapsLate(es) == IF es + 1 > 7 THEN 1 ELSE es + 1

EggSetAfterCompletion(es) == IF es + 1 >= 7 THEN 1 ELSE es + 1

CompletionReportKept(acted) == acted

CompletionReport(acted) == reset_report(acted)

do_steps(steps, nextState, egg_counting) ==
    LET acted == take_action(steps[bufindex + 1].action, NeutralReport)
        dc1 == duration_count + 1
        adv == StepElapsed(dc1, steps[bufindex + 1].duration)
        bi2 == IF adv THEN bufindex + 1 ELSE bufindex
        dc2 == IF adv THEN 0 ELSE dc1
        fin == SequenceExhausted(bi2, Len(steps))
    IN  /\ bufindex' = (IF fin THEN 0 ELSE bi2)
        /\ duration_count' = (IF fin THEN 0 ELSE dc2)
        /\ egg_count' = (IF fin /\ egg_counting THEN EggCountAfterCompletion(egg_count)
                         ELSE egg_count)
        /\ egg_set' = (IF fin /\ egg_counting THEN EggSetAfterCompletion(egg_set)
                       ELSE egg_set)
        /\ state' = (IF fin THEN nextState ELSE state)
        /\ report' = (IF fin THEN CompletionReport(acted) ELSE acted)

-----------------------------------------------------------------------------
(* Observation of a call *)

LastOf(s, n) == IF Len(s) > n THEN SubSeq(s, Len(s) - n + 1, Len(s)) ELSE s

Observe(fresh) ==
    /\ calls' = LastOf(Append(calls, [fresh |-> fresh, rep |-> report', st |-> state]),
                       MaxWindow)
    /\ ticks' = (IF ~fresh \/ <<state', bufindex', duration_count'>>
                                = <<state, bufindex, duration_count>> THEN ticks
                 ELSE IF state' # state THEN 0 ELSE ticks + 1)
    /\ egg_log' =
         (IF fresh /\ state \in {"SPEAK", "CLOSE_BOX"} /\ state' # state
          THEN LastOf(Append(IF egg_log = <<>>
                             THEN <<[slot |-> egg_set, count |-> egg_count]>>
                             ELSE egg_log,
                             [slot |-> egg_set', count |-> egg_count']), LogWindow)
          ELSE IF <<egg_set', egg_count'>> # <<egg_set, egg_count>> THEN <<>>
          ELSE egg_log)
    /\ decrements' = (IF num_boxes' # num_boxes THEN decrements + 1 ELSE decrements)
    /\ closes' = (IF num_boxes' # num_boxes THEN 0
                  ELSE IF fresh /\ state = "CLOSE_BOX" /\ state' # state
                            /\ closes <= SlotsPerBox THEN closes + 1
                  ELSE closes)

-----------------------------------------------------------------------------
(* GetNextReport: the echo buffer *)

EchoPendingAboveOne(e) == e > 1

EchoPending(e) == e > 0

EchoesCleared(e) == 0

EchoesAfterRepeat(e) == e - 1

Repeat ==
    /\ EchoPending(echoes)
    /\ report' = last_report
    /\ echoes' = EchoesAfterRepeat(echoes)
    /\ UNCHANGED <<state, last_report, duration_count, bufindex, num_boxes, egg_count,
                   egg_set, breeding_duration, new_round, config>>
    /\ Observe(FALSE)

EchoesOneRepeat == ECHOES - 1

EchoesAfterFresh == ECHOES

CachedNotUpdated(ReportData, cached) == cached

CachedAfterFresh(ReportData, cached) == ReportData

\* The tail of a fresh call (lines 611-613)
Cache ==
    /\ last_report' = CachedAfterFresh(report', last_report)
    /\ echoes' = EchoesAfterFresh
    /\ UNCHANGED config
    /\ Observe(TRUE)

Fresh(st) == ~EchoPending(echoes) /\ state = st

-----------------------------------------------------------------------------
(* GetNextReport: the top-level state machine, one action per case *)

\* 1.046 * L - 32.583 converted to int: truncated toward zero
TruncDiv(n, d) == IF n >= 0 THEN n \div d ELSE -((-n) \div d)

BreedingDurationRounded(fb, cycles) ==
    IF fb THEN TruncDiv(1046 * (cycles \div 2) - 32583 + 500, 1000)
    ELSE TruncDiv(1046 * cycles - 32583 + 500, 1000)

BreedingDuration(fb, cycles) ==
    IF fb THEN TruncDiv(1046 * (cycles \div 2) - 32583, 1000)
    ELSE TruncDiv(1046 * cycles - 32583, 1000)

SYNC_CONTROLLER ==
    /\ Fresh("SYNC_CONTROLLER")
    /\ bufindex' = 0
    /\ duration_count' = 0
    /\ state' = "BREATHE"
    /\ breeding_duration' = BreedingDuration(flame_body, egg_cycles[nat_dex_number])
    /\ report' = NeutralReport
    /\ UNCHANGED <<num_boxes, egg_count, egg_set, new_round>>
    /\ Cache

BREATHE ==
    /\ Fresh("BREATHE")
    /\ do_steps(wake_up_hang, "FLY_TO_NURSERY", FALSE)
    /\ UNCHANGED <<num_boxes, breeding_duration, new_round>>
    /\ Cache

FlyToNurseryNext(es, nr) ==
    IF es > 1 THEN "GO_TO_CIRCLE3"
    ELSE IF nr # 0 THEN "GO_TO_CIRCLE1"
    ELSE "IN_OUT_NURSERY"

FLY_TO_NURSERY ==
    /\ Fresh("FLY_TO_NURSERY")
    /\ do_steps(fly_to_breading_steps, FlyToNurseryNext(egg_set, new_round), FALSE)
    /\ UNCHANGED <<num_boxes, breeding_duration, new_round>>
    /\ Cache

IN_OUT_NURSERY ==
    /\ Fresh("IN_OUT_NURSERY")
    /\ do_steps(go_in_out_nursery, "GO_TO_CIRCLE1", FALSE)
    /\ UNCHANGED <<num_boxes, breeding_duration, new_round>>
    /\ Cache

GoToCircle1IgnoringRound(nr, ec) == IF ec > 0 THEN "CIRCLE1" ELSE ""

GoToCircle1NeverSkips(nr, ec) ==
    IF nr # 0 /\ ec > 0 THEN "APPROACH_NPC" ELSE "CIRCLE1"

\* The branch of case GO_TO_CIRCLE1: the successor of the sequence, or "" when
\* no sequence is run
GoToCircle1Next(nr, ec) ==
    IF nr # 0 /\ ec > 0 THEN "APPROACH_NPC"
    ELSE IF ec > 0 THEN "CIRCLE1"
    ELSE ""

GO_TO_CIRCLE1 ==
    /\ Fresh("GO_TO_CIRCLE1")
    /\ IF GoToCircle1Next(new_round, egg_count) # ""
       THEN do_steps(go_to_circle1, GoToCircle1Next(new_round, egg_count), FALSE)
       ELSE /\ egg_set' = 1
            /\ state' = "GO_TO_CIRCLE3"
            /\ report' = NeutralReport
            /\ UNCHANGED <<bufindex, duration_count, egg_count>>
    /\ UNCHANGED <<num_boxes, breeding_duration, new_round>>
    /\ Cache

Circle1Direction(dc) ==
    IF dc % 48 <= 11 THEN "L_left"
    ELSE IF dc % 48 <= 23 THEN "L_down"
    ELSE IF dc % 48 <= 35 THEN "L_right"
    ELSE "L_up"

Circle1FinishedEarly(dc) == dc >= 350

Circle1Finished(dc) == dc > 350

CIRCLE1 ==
    /\ Fresh("CIRCLE1")
    /\ LET dc == duration_count + 1
       IN  /\ report' = take_action(Circle1Direction(dc), NeutralReport)
           /\ IF Circle1Finished(dc)
              THEN /\ duration_count' = 0
                   /\ bufindex' = 0
                   /\ state' = "APPROACH_NPC"
              ELSE /\ duration_count' = dc
                   /\ UNCHANGED <<bufindex, state>>
    /\ UNCHANGED <<num_boxes, egg_count, egg_set, breeding_duration, new_round>>
    /\ Cache

APPROACH_NPC ==
    /\ Fresh("APPROACH_NPC")
    /\ new_round' = 0
    /\ do_steps(approach, "SPEAK", FALSE)
    /\ UNCHANGED <<num_boxes, breeding_duration>>
    /\ Cache

SPEAK ==
    /\ Fresh("SPEAK")
    /\ do_steps(speak, "GO_TO_CIRCLE2", TRUE)
    /\ UNCHANGED <<num_boxes, breeding_duration, new_round>>
    /\ Cache

GO_TO_CIRCLE2 ==
    /\ Fresh("GO_TO_CIRCLE2")
    /\ IF egg_count >= 1
       THEN do_steps(go_to_circle2, "CIRCLE1", FALSE)
       ELSE /\ egg_set' = 1
            /\ state' = "GO_TO_CIRCLE3"
            /\ report' = NeutralReport
            /\ UNCHANGED <<bufindex, duration_count, egg_count>>
    /\ UNCHANGED <<num_boxes, breeding_duration, new_round>>
    /\ Cache

GO_TO_CIRCLE3 ==
    /\ Fresh("GO_TO_CIRCLE3")
    /\ do_steps(go_to_circle3, "OPEN_BOX", FALSE)
    /\ UNCHANGED <<num_boxes, breeding_duration, new_round>>
    /\ Cache

OPEN_BOX ==
    /\ Fresh("OPEN_BOX")
    /\ do_steps(open_box, "SELECT_COL", FALSE)
    /\ UNCHANGED <<num_boxes, breeding_duration, new_round>>
    /\ Cache

GrabPre == <<"GRAB_EGGS1_PRE", "GRAB_EGGS2_PRE", "GRAB_EGGS3_PRE",
             "GRAB_EGGS4_PRE", "GRAB_EGGS5_PRE", "GRAB_EGGS6_PRE">>

GrabPost == <<"GRAB_EGGS1_POST", "GRAB_EGGS2_POST", "GRAB_EGGS3_POST",
              "GRAB_EGGS4_POST", "GRAB_EGGS5_POST", "GRAB_EGGS6_POST">>

\* switch (egg_set) with cases 1..6 and no default: outside 1..6 nothing is done
\* and the neutral report is cached
SELECT_COL ==
    /\ Fresh("SELECT_COL")
    /\ IF egg_set \in 1..6
       THEN do_steps(select_col, GrabPre[egg_set], FALSE)
       ELSE /\ report' = NeutralReport
            /\ UNCHANGED <<bufindex, duration_count, egg_count, egg_set, state>>
    /\ UNCHANGED <<num_boxes, breeding_duration, new_round>>
    /\ Cache

GRAB_EGGS_PRE ==
    \E n \in 1..6 :
        /\ Fresh(GrabPre[n])
        /\ do_steps(grab_eggs_pre(n), "SELECT_COL2", FALSE)
        /\ UNCHANGED <<num_boxes, breeding_duration, new_round>>
        /\ Cache

SELECT_COL2 ==
    /\ Fresh("SELECT_COL2")
    /\ IF egg_set \in 1..6
       THEN do_steps(select_col, GrabPost[egg_set], FALSE)
       ELSE /\ report' = NeutralReport
            /\ UNCHANGED <<bufindex, duration_count, egg_count, egg_set, state>>
    /\ UNCHANGED <<num_boxes, breeding_duration, new_round>>
    /\ Cache

GRAB_EGGS_POST ==
    \E n \in 1..6 :
        /\ Fresh(GrabPost[n])
        /\ do_steps(grab_eggs_post(n), "CLOSE_BOX", FALSE)
        /\ UNCHANGED <<num_boxes, breeding_duration, new_round>>
        /\ Cache

CLOSE_BOX ==
    /\ Fresh("CLOSE_BOX")
    /\ do_steps(close_box, "CIRCLE_CW", TRUE)
    /\ UNCHANGED <<num_boxes, breeding_duration, new_round>>
    /\ Cache

CircleCWDirection(dc) ==
    IF dc % 48 <= 11 THEN "L_right"
    ELSE IF dc % 48 <= 23 THEN "L_down"
    ELSE IF dc % 48 <= 35 THEN "L_left"
    ELSE "L_up"

CircleCWPressALonger(dc) == dc % 24 >= 0 /\ dc % 24 <= 6

CircleCWPressA(dc) == dc % 24 >= 0 /\ dc % 24 <= 5

CircleCWFinishedEarly(dc, bd) == dc >= bd + 4200

CircleCWFinished(dc, bd) == dc > bd + 4200

NumBoxesNotDecremented(nb) == nb

BoxFinishedPolicyBeforeDecrement(sv, nb) ==
    IF sv = 1 \/ (sv = 2 /\ nb + 1 <= 0) THEN "SAVE"
    ELSE IF nb > 0 THEN "FLY_TO_NURSERY"
    ELSE "SLEEP"

BoxFinishedSleepsEarly(sv, nb) ==
    IF sv = 1 \/ (sv = 2 /\ nb <= 0) THEN "SAVE"
    ELSE IF nb > 1 THEN "FLY_TO_NURSERY"
    ELSE "SLEEP"

NumBoxesAfterBox(nb) == (nb - 1) % UINT8

\* The successor chosen when a box is finished (lines 564-573), nb already decremented
BoxFinishedNext(sv, nb) ==
    IF sv = 1 \/ (sv = 2 /\ nb <= 0) THEN "SAVE"
    ELSE IF nb > 0 THEN "FLY_TO_NURSERY"
    ELSE "SLEEP"

CIRCLE_CW ==
    /\ Fresh("CIRCLE_CW")
    /\ LET dc == duration_count + 1
           moved == take_action(CircleCWDirection(dc), NeutralReport)
           nb == NumBoxesAfterBox(num_boxes)
       IN  /\ report' = (IF CircleCWPressA(dc) THEN take_action("press_a", moved)
                         ELSE moved)
           /\ IF CircleCWFinished(dc, breeding_duration)
              THEN /\ duration_count' = 0
                   /\ bufindex' = 0
                   /\ IF egg_set = 1
                      THEN /\ egg_count' = subsequent_egg_checks
                           /\ num_boxes' = nb
                           /\ state' = BoxFinishedNext(save, nb)
                           /\ new_round' = (IF BoxFinishedNext(save, nb) = "FLY_TO_NURSERY"
                                            THEN 1 ELSE new_round)
                      ELSE /\ state' = "FLY_TO_NURSERY"
                           /\ UNCHANGED <<egg_count, num_boxes, new_round>>
              ELSE /\ duration_count' = dc
                   /\ UNCHANGED <<bufindex, state, egg_count, num_boxes, new_round>>
    /\ UNCHANGED <<egg_set, breeding_duration>>
    /\ Cache

SAVE ==
    /\ Fresh("SAVE")
    /\ IF num_boxes > 0
       THEN /\ new_round' = 1
            /\ do_steps(save_game, "FLY_TO_NURSERY", FALSE)
       ELSE /\ do_steps(save_game, "SLEEP", FALSE)
            /\ UNCHANGED new_round
    /\ UNCHANGED <<num_boxes, breeding_duration>>
    /\ Cache

SLEEP ==
    /\ Fresh("SLEEP")
    /\ do_steps(sleep, "DONE", FALSE)
    /\ UNCHANGED <<num_boxes, breeding_duration, new_round>>
    /\ Cache

\* case DONE returns before the report is cached (line 603)
DONE ==
    /\ Fresh("DONE")
    /\ report' = NeutralReport
    /\ UNCHANGED <<state, echoes, last_report, duration_count, bufindex, num_boxes,
                   egg_count, egg_set, breeding_duration, new_round, config>>
    /\ Observe(TRUE)

-----------------------------------------------------------------------------
(* Specifications *)

TypeInit ==
    /\ state = "SYNC_CONTROLLER"
    /\ echoes = 0
    /\ last_report = ZeroReport
    /\ duration_count = 0
    /\ bufindex = 0
    /\ egg_set = 1
    /\ breeding_duration = 5500
    /\ new_round = 0
    /\ report = ZeroReport
    /\ calls = <<>>
    /\ ticks = 0
    /\ egg_log = <<>>
    /\ decrements = 0
    /\ closes = 0

Init ==
    /\ TypeInit
    /\ number_of_boxes \in 1..MaxBoxes
    /\ num_boxes = number_of_boxes
    /\ initial_egg_checks \in 0..MaxEggChecks
    /\ egg_count = initial_egg_checks
    /\ subsequent_egg_checks \in 0..MaxEggChecks
    /\ save \in SavePolicies
    /\ flame_body = TRUE
    /\ nat_dex_number = 1
    /\ wake_up_hang = <<Step("hang", 2)>>

Next ==
    \/ Repeat
    \/ SYNC_CONTROLLER
    \/ BREATHE
    \/ FLY_TO_NURSERY
    \/ IN_OUT_NURSERY
    \/ GO_TO_CIRCLE1
    \/ CIRCLE1
    \/ APPROACH_NPC
    \/ SPEAK
    \/ GO_TO_CIRCLE2
    \/ GO_TO_CIRCLE3
    \/ OPEN_BOX
    \/ SELECT_COL
    \/ GRAB_EGGS_PRE
    \/ SELECT_COL2
    \/ GRAB_EGGS_POST
    \/ CLOSE_BOX
    \/ CIRCLE_CW
    \/ SAVE
    \/ SLEEP
    \/ DONE

Spec == Init /\ [][Next]_vars

\* The sequence runner on every step table within the bounds: BREATHE runs it
InitRunner ==
    /\ TypeInit
    /\ number_of_boxes = 1
    /\ num_boxes = number_of_boxes
    /\ initial_egg_checks = 1
    /\ egg_count = initial_egg_checks
    /\ subsequent_egg_checks = 1
    /\ save = 0
    /\ flame_body = TRUE
    /\ nat_dex_number = 1
    /\ wake_up_hang \in Sequences

NextRunner ==
    \/ Repeat
    \/ SYNC_CONTROLLER
    \/ BREATHE

SpecRunner == InitRunner /\ [][NextRunner]_vars

\* The select-col dispatches on every value of egg_set, the malformed ones
\* included (a hypothesised fault: no run of Spec leaves 1..6)
MalformedSlots == {0, 7, 255}

InitDispatch ==
    /\ state \in {"SELECT_COL", "SELECT_COL2"}
    /\ egg_set \in (1..6) \cup MalformedSlots
    /\ echoes = 0
    /\ last_report = NeutralReport
    /\ report = NeutralReport
    /\ duration_count = 0
    /\ bufindex = 0
    /\ new_round = 0
    /\ initial_egg_checks = 0
    /\ egg_count = 0
    /\ number_of_boxes = 1
    /\ num_boxes = 1
    /\ subsequent_egg_checks \in 0..MaxEggChecks
    /\ save = 0
    /\ flame_body = TRUE
    /\ nat_dex_number = 1
    /\ breeding_duration = BreedingDuration(flame_body, egg_cycles[nat_dex_number])
    /\ wake_up_hang = <<Step("hang", 2)>>
    /\ calls = <<>>
    /\ ticks = 0
    /\ egg_log = <<>>
    /\ decrements = 0
    /\ closes = 0

NextDispatch ==
    \/ Repeat
    \/ SELECT_COL
    \/ GRAB_EGGS_PRE
    \/ SELECT_COL2
    \/ GRAB_EGGS_POST
    \/ CLOSE_BOX

SpecDispatch == InitDispatch /\ [][NextDispatch]_vars

\* Every species of the table with and without the modifier flag, one box
InitBreed ==
    /\ TypeInit
    /\ number_of_boxes = 1
    /\ num_boxes = number_of_boxes
    /\ initial_egg_checks \in 0..MaxEggChecks
    /\ egg_count = initial_egg_checks
    /\ subsequent_egg_checks = 0
    /\ save = 1
    /\ flame_body \in BOOLEAN
    /\ nat_dex_number \in DOMAIN egg_cycles
    /\ wake_up_hang = <<Step("hang", 2)>>

SpecBreed == InitBreed /\ [][Next]_vars

\* HID_Task is called forever from main's loop: a call of GetNextReport that is
\* possible is eventually made
SpecLive == Init /\ [][Next]_vars /\ WF_vars(Next)

-----------------------------------------------------------------------------
(* Auxiliary definitions of the properties *)

RECURSIVE SumTicks(_, _)
SumTicks(steps, i) ==
    IF i > Len(steps) THEN 0 ELSE steps[i].duration + 1 + SumTicks(steps, i + 1)

\* sum(duration + 1) over the steps of a sequence
SeqTicks(steps) == SumTicks(steps, 1)

LastCall == calls[Len(calls)]

FreshCallFrom(st) == calls # <<>> /\ LastCall.fresh /\ LastCall.st = st

Stick(x, y) == [NeutralReport EXCEPT !.LX = x, !.LY = y]
StickLeft == Stick(STICK_MIN, STICK_CENTER)
StickRight == Stick(STICK_MAX, STICK_CENTER)
StickUp == Stick(STICK_CENTER, STICK_MIN)
StickDown == Stick(STICK_CENTER, STICK_MAX)

Advanced ==
    /\ <<state, bufindex, duration_count>>' # <<state, bufindex, duration_count>>
    /\ ticks' = (IF state' # state THEN 0 ELSE ticks + 1)

-----------------------------------------------------------------------------
(* C1: a sequence started at cursor (0,0) completes (the state becomes the  *)
(* declared successor) on runner call number sum(duration+1) and on no      *)
(* earlier call, and the cursor is (0,0) after that call.  SpecRunner.      *)
C1_RunnerCompletes ==
    [][(state = "BREATHE" /\ echoes = 0) =>
          /\ state' \in {"BREATHE", "FLY_TO_NURSERY"}
          /\ (state' = "FLY_TO_NURSERY") <=> (ticks + 1 = SeqTicks(wake_up_hang))
          /\ (state' = "FLY_TO_NURSERY") => (bufindex' = 0 /\ duration_count' = 0)
          /\ ticks + 1 <= SeqTicks(wake_up_hang)]_vars

C1_Witness ==
    /\ FreshCallFrom("BREATHE")
    /\ state = "FLY_TO_NURSERY"
    /\ Len(wake_up_hang) >= 2
    /\ \E i, j \in 1..Len(wake_up_hang) :
          wake_up_hang[i].duration = 0 /\ wake_up_hang[j].duration > 0

(* C2: a call made with a repeat budget > 0 returns the cached report,      *)
(* decrements the budget by exactly 1 and changes no state-machine          *)
(* variable nor the cached report.                                          *)
C2_CachedPathFrame ==
    [][echoes > 0 =>
          /\ report' = last_report
          /\ echoes' = echoes - 1
          /\ UNCHANGED <<state, bufindex, duration_count, egg_count, egg_set,
                         num_boxes, new_round, breeding_duration, last_report>>]_vars

C2_Witness ==
    /\ calls # <<>>
    /\ ~LastCall.fresh
    /\ LastCall.st = "CIRCLE1"
    /\ report = last_report
    /\ report # NeutralReport

(* C3 as claimed: every call made with budget 0, in every state including   *)
(* done, advances the state machine by one tick, caches the returned report *)
(* and leaves the budget at 2.                                              *)
C3_FreshPathEveryState ==
    [][echoes = 0 =>
          /\ last_report' = report'
          /\ echoes' = 2
          /\ calls'[Len(calls')].fresh]_vars

(* C3 as amended: in every state other than done a call made with budget 0  *)
(* advances the state machine by exactly one tick, caches the returned      *)
(* report and leaves the budget at 2; in done it returns the neutral report *)
(* and leaves the cached report and the budget (0) unchanged.               *)
C3_FreshPath ==
    [][echoes = 0 =>
          IF state # "DONE"
          THEN /\ Advanced
               /\ last_report' = report'
               /\ echoes' = 2
               /\ calls'[Len(calls')].fresh
          ELSE /\ report' = NeutralReport
               /\ UNCHANGED <<last_report, echoes, state>>]_vars

C3_Witness ==
    /\ Len(calls) >= 2
    /\ FreshCallFrom("DONE")
    /\ calls[Len(calls) - 1].fresh
    /\ calls[Len(calls) - 1].st = "DONE"
    /\ echoes = 0

(* C4: of the 3 calls that follow a fresh tick, the first 2 return          *)
(* bit-identical reports (the 3rd may differ).                              *)
C4_EchoInvariant ==
    \A i \in 1..(Len(calls) - 2) :
        calls[i].fresh => calls[i + 1].rep = calls[i + 2].rep

C4_Witness ==
    /\ Len(calls) >= 4
    /\ calls[1].fresh
    /\ calls[2].rep = calls[3].rep
    /\ calls[4].rep # calls[3].rep

(* C5 as claimed: while the state is not done, exactly one of every 2       *)
(* consecutive calls advances the state machine.                            *)
C5_OneTickPerTwoCalls ==
    \A i \in 1..(Len(calls) - 1) :
        (calls[i].st # "DONE" /\ calls[i + 1].st # "DONE")
            => (calls[i].fresh # calls[i + 1].fresh)

(* C5 as amended: while the state is not done, exactly one of every 3       *)
(* consecutive calls advances the state machine (N ticks consume 3N calls). *)
C5_OneTickPerThreeCalls ==
    \A i \in 1..(Len(calls) - 2) :
        (\A j \in i..(i + 2) : calls[j].st # "DONE")
            => Cardinality({j \in i..(i + 2) : calls[j].fresh}) = 1

C5_Witness ==
    /\ Len(calls) >= 4
    /\ \A j \in 1..4 : calls[j].st # "DONE"
    /\ calls[1].fresh /\ ~calls[2].fresh /\ ~calls[3].fresh /\ calls[4].fresh

(* C6 as claimed: after a fresh entry circle1 emits left on ticks 1-12,     *)
(* down on 13-24, right on 25-36, up on 37-48, and leaves for approach-npc  *)
(* on tick 351 and no earlier.                                              *)
C6_Circle1AsClaimed ==
    [][(state = "CIRCLE1" /\ echoes = 0) =>
          LET t == ticks + 1
          IN  /\ (t \in 1..12 => report' = StickLeft)
              /\ (t \in 13..24 => report' = StickDown)
              /\ (t \in 25..36 => report' = StickRight)
              /\ (t \in 37..48 => report' = StickUp)
              /\ (state' = "APPROACH_NPC") <=> (t = 351)
              /\ state' \in {"CIRCLE1", "APPROACH_NPC"}]_vars

(* C6 as amended: after a fresh entry circle1 emits left on ticks 1-11,     *)
(* down on 12-23, right on 24-35, up on 36-47 and left again on tick 48     *)
(* (the counter is incremented before the phase is chosen), and leaves for  *)
(* approach-npc on tick 351 and no earlier, whatever the counters are.      *)
C6_Circle1 ==
    [][(state = "CIRCLE1" /\ echoes = 0) =>
          LET t == ticks + 1
          IN  /\ (t \in 1..11 => report' = StickLeft)
              /\ (t \in 12..23 => report' = StickDown)
              /\ (t \in 24..35 => report' = StickRight)
              /\ (t \in 36..47 => report' = StickUp)
              /\ (t = 48 => report' = StickLeft)
              /\ (state' = "APPROACH_NPC") <=> (t = 351)
              /\ state' \in {"CIRCLE1", "APPROACH_NPC"}
              /\ t <= 351
              /\ UNCHANGED <<egg_count, egg_set, num_boxes, new_round>>]_vars

C6_Witness ==
    /\ FreshCallFrom("CIRCLE1")
    /\ state = "APPROACH_NPC"
    /\ ticks = 0

(* C7: at circle1-entry with round_flag set and egg_count > 0 the next      *)
(* state is approach-npc (circle1 is not entered in between); with          *)
(* round_flag clear and egg_count > 0 it is circle1.                        *)
C7_PendingRoundRouting ==
    [][(state = "GO_TO_CIRCLE1" /\ echoes = 0 /\ egg_count > 0) =>
          /\ new_round # 0 => state' \in {"GO_TO_CIRCLE1", "APPROACH_NPC"}
          /\ new_round = 0 => state' \in {"GO_TO_CIRCLE1", "CIRCLE1"}
          /\ (state' # "GO_TO_CIRCLE1") <=> (ticks + 1 = SeqTicks(go_to_circle1))
          /\ UNCHANGED <<new_round, egg_count>>]_vars

C7_Witness ==
    /\ FreshCallFrom("GO_TO_CIRCLE1")
    /\ state = "APPROACH_NPC"
    /\ new_round = 1
    /\ egg_count > 0

(* C8: a tick of circle1-entry with egg_count = 0 sets egg_slot to 1 and    *)
(* the state to circle3 without applying a step: cursor (0,0) before and    *)
(* after, neutral report, egg_count, box_count and round_flag unchanged.    *)
C8_NoEggsRouting ==
    [][(state = "GO_TO_CIRCLE1" /\ echoes = 0 /\ egg_count = 0) =>
          /\ egg_set' = 1
          /\ state' = "GO_TO_CIRCLE3"
          /\ bufindex = 0 /\ duration_count = 0
          /\ bufindex' = 0 /\ duration_count' = 0
          /\ report' = NeutralReport
          /\ UNCHANGED <<egg_count, num_boxes, new_round>>]_vars

C8_Witness ==
    /\ FreshCallFrom("GO_TO_CIRCLE1")
    /\ state = "GO_TO_CIRCLE3"
    /\ egg_count = 0
    /\ egg_set = 1

(* C9: starting with egg_slot = 1, after 6 consecutive counting completions *)
(* (no other write to the counters in between) egg_slot is 1 again, having  *)
(* been 2,3,4,5,6 in between, and egg_count is exactly 6 less than before.  *)
C9_EggSlotWraparound ==
    (Len(egg_log) >= 7 /\ egg_log[1].slot = 1) =>
        /\ \A i \in 2..6 : egg_log[i].slot = i
        /\ egg_log[7].slot = 1
        /\ egg_log[7].count = egg_log[1].count - 6

(* C11: with number_of_boxes >= 1, any egg-check counts and any save policy, *)
(* the engine started in sync eventually reaches done, and sleep is entered *)
(* after exactly number_of_boxes decrements of num_boxes, with num_boxes 0  *)
(* and never wrapped.  SpecLive.                                            *)
BoxesAccounted ==
    /\ decrements + num_boxes = number_of_boxes
    /\ state \in {"SLEEP", "DONE"} => (num_boxes = 0 /\ decrements = number_of_boxes)

C11_Termination ==
    /\ <>(state = "DONE")
    /\ BoxesAccounted
    /\ [][BoxesAccounted']_vars

C11_Witness ==
    /\ state = "DONE"
    /\ number_of_boxes = MaxBoxes
    /\ decrements = MaxBoxes
    /\ num_boxes = 0
    /\ save = 2

(* C12: a tick of select-col (first or second dispatch) with egg_slot       *)
(* outside 1..6 emits the neutral report and returns the engine to sync.    *)
(* SpecDispatch.                                                            *)
C12_FailSafeDispatch ==
    [][(state \in {"SELECT_COL", "SELECT_COL2"} /\ echoes = 0 /\ egg_set \notin 1..6) =>
          /\ report' = NeutralReport
          /\ state' = "SYNC_CONTROLLER"]_vars

(* C13: on the terminating tick of circle-cw with egg_slot = 1 the next      *)
(* state is save iff the policy is 1, or 2 with box_count 0 after the       *)
(* decrement; otherwise fly-to-nursery with round_flag set when             *)
(* box_count > 0 and sleep when it is 0.  Under policy 0 save is never      *)
(* reached; under policy 2 it is entered only with box_count 0, on the      *)
(* last decrement (so at most once), and its successor is sleep.            *)
C13_SavePolicy ==
    [][/\ (state = "CIRCLE_CW" /\ echoes = 0 /\ state' # "CIRCLE_CW" /\ egg_set = 1) =>
             /\ (state' = "SAVE") <=> (save = 1 \/ (save = 2 /\ num_boxes' = 0))
             /\ (state' # "SAVE" /\ num_boxes' > 0) =>
                    (state' = "FLY_TO_NURSERY" /\ new_round' = 1)
             /\ (state' # "SAVE" /\ num_boxes' = 0) => state' = "SLEEP"
       /\ save = 0 => state' # "SAVE"
       /\ (save = 2 /\ state' = "SAVE") =>
             (num_boxes' = 0 /\ decrements' = number_of_boxes)
       /\ (save = 2 /\ state = "SAVE") => state' \in {"SAVE", "SLEEP"}
       /\ (state' = "SAVE" /\ state # "SAVE") => (state = "CIRCLE_CW" /\ egg_set = 1)]_vars

C13_Witness ==
    /\ FreshCallFrom("SAVE")
    /\ state = "SLEEP"
    /\ save = 2
    /\ number_of_boxes = MaxBoxes

(* C14: the sync tick sets breeding_duration to 1.046*L - 32.583 truncated  *)
(* toward zero, L being the species lookup value, integer-divided by 2      *)
(* when the modifier flag is set; 6661 for lookup 6400 with the flag unset. *)
(* No other tick writes it.  SpecBreed.                                     *)
BreedingValueTimes1000 ==
    1046 * (IF flame_body THEN egg_cycles[nat_dex_number] \div 2
            ELSE egg_cycles[nat_dex_number]) - 32583

IsTruncationOf(k, thousandths) ==
    IF thousandths >= 0
    THEN 1000 * k <= thousandths /\ thousandths < 1000 * (k + 1)
    ELSE 1000 * (k - 1) < thousandths /\ thousandths <= 1000 * k

C14_BreedingDuration ==
    [][/\ (state = "SYNC_CONTROLLER" /\ echoes = 0) =>
             /\ IsTruncationOf(breeding_duration', BreedingValueTimes1000)
             /\ (egg_cycles[nat_dex_number] = 6400 /\ ~flame_body) =>
                    breeding_duration' = 6661
       /\ ~(state = "SYNC_CONTROLLER" /\ echoes = 0) => UNCHANGED breeding_duration]_vars

C14_Witness ==
    /\ state = "DONE"
    /\ egg_cycles[nat_dex_number] = 6400
    /\ ~flame_body
    /\ breeding_duration = 6661

(* C15: num_boxes is decremented once per full box-processing cycle: only   *)
(* on a terminating tick of CIRCLE_CW with egg_set = 1, and every such tick *)
(* decrements it by one and resets egg_count to subsequent_egg_checks;      *)
(* since the previous decrement (or start-up) exactly 6 close-box sequences *)
(* have completed, the k-th of them with egg_set = k.                       *)
CircleCWTerminates ==
    state = "CIRCLE_CW" /\ echoes = 0 /\ state' # "CIRCLE_CW"

C15_OneDecrementPerBox ==
    [][/\ num_boxes' # num_boxes => (CircleCWTerminates /\ egg_set = 1)
       /\ (CircleCWTerminates /\ egg_set = 1) =>
             /\ num_boxes' = num_boxes - 1
             /\ egg_count' = subsequent_egg_checks
             /\ closes = SlotsPerBox
       /\ (state = "CLOSE_BOX" /\ state' # "CLOSE_BOX") =>
             /\ closes < SlotsPerBox
             /\ egg_set = closes + 1]_vars

C15_Witness ==
    /\ FreshCallFrom("CIRCLE_CW")
    /\ state # "CIRCLE_CW"
    /\ decrements = MaxBoxes
    /\ closes = 0
    /\ egg_count = subsequent_egg_checks

(* C16: CIRCLE_CW is entered with the cursor at (0,0); it stays in          *)
(* CIRCLE_CW for breeding_duration + 4200 ticks that touch no counter and   *)
(* leaves on tick breeding_duration + 4201 with the cursor back at (0,0);   *)
(* when egg_set is not 1 on that tick the successor is FLY_TO_NURSERY and   *)
(* egg_count, num_boxes and new_round are unchanged.  SpecBreed.            *)
C16_CircleCWDuration ==
    [][/\ (state # "CIRCLE_CW" /\ state' = "CIRCLE_CW") =>
             (duration_count' = 0 /\ bufindex' = 0 /\ ticks' = 0)
       /\ (state = "CIRCLE_CW" /\ echoes = 0) =>
             LET t == ticks + 1
             IN  /\ t <= breeding_duration + 4201
                 /\ t <= breeding_duration + 4200 =>
                       /\ state' = "CIRCLE_CW"
                       /\ ticks' = t
                       /\ UNCHANGED <<egg_count, egg_set, num_boxes, new_round,
                                      bufindex, breeding_duration>>
                 /\ t = breeding_duration + 4201 =>
                       /\ state' # "CIRCLE_CW"
                       /\ duration_count' = 0 /\ bufindex' = 0
                       /\ egg_set # 1 =>
                             /\ state' = "FLY_TO_NURSERY"
                             /\ UNCHANGED <<egg_count, num_boxes, new_round>>]_vars

C16_Witness ==
    /\ FreshCallFrom("CIRCLE_CW")
    /\ state = "FLY_TO_NURSERY"
    /\ egg_set = 2
    /\ breeding_duration = 6661
    /\ duration_count = 0 /\ bufindex = 0

(* C17: on every CIRCLE_CW tick, t being the elapsed counter after its      *)
(* increment, the left stick points right for t mod 48 in 0..11, down for   *)
(* 12..23, left for 24..35 and up for 36..47; A is pressed iff t mod 24 is  *)
(* in 0..5; no other button, the right stick or the hat is set.             *)
CircleCWStick(t) ==
    IF t % 48 \in 0..11 THEN StickRight
    ELSE IF t % 48 \in 12..23 THEN StickDown
    ELSE IF t % 48 \in 24..35 THEN StickLeft
    ELSE StickUp

C17_CircleCWOutput ==
    [][(state = "CIRCLE_CW" /\ echoes = 0) =>
          LET t == duration_count + 1
          IN  /\ t = ticks + 1
              /\ report' = [CircleCWStick(t) EXCEPT
                              !.Button = IF t % 24 \in 0..5 THEN {"SWITCH_A"} ELSE {}]]_vars

C17_Witness ==
    /\ FreshCallFrom("CIRCLE_CW")
    /\ state = "CIRCLE_CW"
    /\ duration_count = 48
    /\ report = [StickRight EXCEPT !.Button = {"SWITCH_A"}]

(* C18: egg_set is one of 1..6 initially and after every call, so every     *)
(* tick of SELECT_COL and SELECT_COL2 matches a case and runs its sequence  *)
(* (the cursor or the state moves).                                         *)
C18_EggSlotRange ==
    /\ egg_set \in 1..SlotsPerBox
    /\ [][/\ egg_set' \in 1..SlotsPerBox
          /\ (state \in {"SELECT_COL", "SELECT_COL2"} /\ echoes = 0) =>
                <<state', bufindex', duration_count'>>
                    # <<state, bufindex, duration_count>>]_vars

C18_Witness ==
    /\ FreshCallFrom("CLOSE_BOX")
    /\ state = "CIRCLE_CW"
    /\ closes = SlotsPerBox
    /\ egg_set = 1

(* C19: every tick that changes the state leaves the cursor at (0,0), and   *)
(* the step index with which a state reads its sequence is within           *)
(* 0..length-1 of that sequence.                                            *)
SequenceOf(st) ==
    CASE st = "BREATHE" -> wake_up_hang
      [] st = "FLY_TO_NURSERY" -> fly_to_breading_steps
      [] st = "IN_OUT_NURSERY" -> go_in_out_nursery
      [] st = "GO_TO_CIRCLE1" -> go_to_circle1
      [] st = "APPROACH_NPC" -> approach
      [] st = "SPEAK" -> speak
      [] st = "GO_TO_CIRCLE2" -> go_to_circle2
      [] st = "GO_TO_CIRCLE3" -> go_to_circle3
      [] st = "OPEN_BOX" -> open_box
      [] st \in {"SELECT_COL", "SELECT_COL2"} -> select_col
      [] \E n \in 1..6 : st = GrabPre[n] ->
            grab_eggs_pre(CHOOSE n \in 1..6 : st = GrabPre[n])
      [] \E n \in 1..6 : st = GrabPost[n] ->
            grab_eggs_post(CHOOSE n \in 1..6 : st = GrabPost[n])
      [] st = "CLOSE_BOX" -> close_box
      [] st = "SAVE" -> save_game
      [] st = "SLEEP" -> sleep
      [] OTHER -> <<>>

IndexInRange(st, bi) ==
    SequenceOf(st) = <<>> \/ bi \in 0..(Len(SequenceOf(st)) - 1)

C19_CursorDiscipline ==
    /\ IndexInRange(state, bufindex)
    /\ [][/\ state' # state => (bufindex' = 0 /\ duration_count' = 0)
          /\ IndexInRange(state', bufindex')]_vars

C19_Witness ==
    /\ FreshCallFrom("GO_TO_CIRCLE2")
    /\ state = "GO_TO_CIRCLE3"
    /\ bufindex = 0 /\ duration_count = 0

(* C20: egg_count never underflows: a counting completion (of SPEAK or      *)
(* CLOSE_BOX) happens only when egg_count > 0 and takes exactly one off, so *)
(* egg_count never wraps from 0 to 255 and stays within                     *)
(* 0..max(initial_egg_checks, subsequent_egg_checks).                       *)
MaxOf(a, b) == IF a >= b THEN a ELSE b

EggCountInRange(ec) ==
    ec \in 0..MaxOf(initial_egg_checks, subsequent_egg_checks)

C20_EggCountNoUnderflow ==
    /\ EggCountInRange(egg_count)
    /\ [][/\ EggCountInRange(egg_count')
          /\ (state \in {"SPEAK", "CLOSE_BOX"} /\ echoes = 0 /\ state' # state) =>
                (egg_count > 0 /\ egg_count' = egg_count - 1)]_vars

(* C10: once the state is done it stays done, every report returned is the  *)
(* neutral report, and no counter or cursor changes.                        *)
C10_DoneAbsorbing ==
    [][state = "DONE" =>
          /\ state' = "DONE"
          /\ report' = NeutralReport
          /\ UNCHANGED <<egg_count, egg_set, num_boxes, new_round, bufindex,
                         duration_count, breeding_duration, last_report>>]_vars

C10_Witness ==
    /\ Len(calls) >= 4
    /\ state = "DONE"
    /\ calls[Len(calls) - 3].st = "SLEEP"
    /\ ~calls[Len(calls) - 1].fresh
    /\ FreshCallFrom("DONE")

=============================================================================
